---------------------------- MODULE Spec2Model ----------------------------
(***************************************************************************)
(* A model of autotranslate (src/src/index.ts): one run of main() over an  *)
(* input file, the LibreTranslate probe, the per-string translate calls,   *)
(* the JSON walker, the two INI passes and the write of the output file.   *)
(*                                                                         *)
(* Strings are sequences of one-character strings, so that split, trim and *)
(* the regular expressions of the source are computed, not assumed.        *)
(* JavaScript values are tagged records: [t |-> "str", s |-> chars],       *)
(* [t |-> "num"], [t |-> "bool"], [t |-> "null"], [t |-> "undef"],         *)
(* [t |-> "arr", a |-> <<values>>], [t |-> "obj", o |-> <<<<key, value>>>>]*)
(* with the entries of an object in Object.entries order.                  *)
(***************************************************************************)
EXTENDS Integers, Sequences, FiniteSets

VARIABLES
    json,            \* options.json
    ini,             \* options.ini
    fileExists,      \* fs.existsSync(filePath)
    file,            \* what readFileSync(filePath) holds
    pc,              \* where main() stands
    exitCode,        \* -1 while running, else the process exit status
    failure,         \* which error ended the run ("none" if none)
    gets,            \* the number of GET requests issued to the base URL
    isApiAccessible, \* main: isApiAccessible ("unknown" before the probe returns)
    posts,           \* the POST /translate requests issued: who asked, and q
    currentSection,  \* processIniFile: currentSection
    translatedContent, \* processIniFile: translatedContent
    idx,             \* processIniFile: index of the line whose translation is awaited
    res,             \* each translateText call (by JSON leaf path, or <<INI line>>):
                     \* in flight, or done with the value it returned
    order,           \* translateJsonValue: leaf paths in the order their calls completed
    pending,         \* the content main() is about to hand to writeFileSync
    outFile          \* the output file on disk

vars == <<json, ini, fileExists, file, pc, exitCode, failure, gets,
          isApiAccessible, posts, currentSection, translatedContent, idx, res, order, pending, outFile>>

-----------------------------------------------------------------------------
(* Bounds of the model *)

\* most lines of an INI input (a final empty line stands for a trailing newline)
MaxLines == 3
\* most elements of the outermost JSON array
MaxArr == 2

-----------------------------------------------------------------------------
(* JavaScript values and strings *)

Str(cs) == [t |-> "str", s |-> cs]
Undefined == [t |-> "undef"]
Null == [t |-> "null"]
Num == [t |-> "num", n |-> 3]
Bool == [t |-> "bool", b |-> TRUE]
Arr(vs) == [t |-> "arr", a |-> vs]
Obj(es) == [t |-> "obj", o |-> es]

\* the truthiness test of `if (x)` / `x && y` on undefined and on strings
Truthy(v) == IF v.t = "str" THEN v.s # <<>> ELSE v.t \notin {"undef", "null"}

\* string conversion inside a template literal
ToStr(v) ==
    IF v.t = "str" THEN v.s
    ELSE IF v.t = "undef" THEN <<"u", "n", "d", "e", "f", "i", "n", "e", "d">>
    ELSE <<"?">>

IsSpace(c) == c \in {" ", "\t", "\r"}

RECURSIVE TrimStart(_)
TrimStart(s) ==
    IF s # <<>> /\ IsSpace(Head(s)) THEN TrimStart(Tail(s)) ELSE s

RECURSIVE TrimEnd(_)
TrimEnd(s) ==
    IF s # <<>> /\ IsSpace(s[Len(s)]) THEN TrimEnd(SubSeq(s, 1, Len(s) - 1)) ELSE s

\* String.prototype.trim
Trim(s) == TrimEnd(TrimStart(s))

\* least index >= from holding c, 0 if none (String.prototype.indexOf, 1-based)
IndexFrom(s, c, from) ==
    LET hits == {i \in from..Len(s) : s[i] = c}
    IN  IF hits = {} THEN 0 ELSE CHOOSE i \in hits : \A j \in hits : i <= j

\* content.split("\n")
RECURSIVE Split(_)
Split(s) ==
    LET n == IndexFrom(s, "\n", 1)
    IN  IF n = 0 THEN <<s>>
        ELSE <<SubSeq(s, 1, n - 1)>> \o Split(SubSeq(s, n + 1, Len(s)))

\* lines.join("\n"): how an input text is laid out from its lines
RECURSIVE Join(_)
Join(ls) ==
    IF Len(ls) = 0 THEN <<>>
    ELSE IF Len(ls) = 1 THEN ls[1]
    ELSE ls[1] \o <<"\n">> \o Join(Tail(ls))

RECURSIVE Concat(_)
Concat(ss) == IF ss = <<>> THEN <<>> ELSE Head(ss) \o Concat(Tail(ss))

-----------------------------------------------------------------------------
(* Line classifier *)

\* trimmedLine.match(/^\[(.*?)\]$/)
sectionMatchAnchored(trimmedLine) ==
    /\ Len(trimmedLine) >= 2
    /\ trimmedLine[1] = "["
    /\ trimmedLine[Len(trimmedLine)] = "]"

\* line.content.match(/\[(.*?)\]/): <<matched, group 1>>
sectionMatch(content) ==
    LET open == IndexFrom(content, "[", 1)
        close == IF open = 0 THEN 0 ELSE IndexFrom(content, "]", open + 1)
    IN  IF close = 0 THEN [matched |-> FALSE, name |-> <<>>]
        ELSE [matched |-> TRUE, name |-> SubSeq(content, open + 1, close - 1)]

\* trimmedLine.match(/^([^=]+)=(.*)$/): <<matched, group 1, group 2>>
keyValueMatch(trimmedLine) ==
    LET eq == IndexFrom(trimmedLine, "=", 1)
    IN  IF eq < 2 THEN [matched |-> FALSE, g1 |-> <<>>, g2 |-> <<>>]
        ELSE [matched |-> TRUE,
              g1 |-> SubSeq(trimmedLine, 1, eq - 1),
              g2 |-> SubSeq(trimmedLine, eq + 1, Len(trimmedLine))]

\* the body of the loop of parseIniWithComments: one line to one IniLine
classifyLine(line) ==
    LET trimmedLine == Trim(line)
        kv == keyValueMatch(trimmedLine)
    IN  IF trimmedLine = <<>>
          THEN [type |-> "empty", content |-> line, key |-> Undefined, value |-> Undefined]
        ELSE IF trimmedLine[1] \in {";", "#"}
          THEN [type |-> "comment", content |-> line, key |-> Undefined, value |-> Undefined]
        ELSE IF sectionMatchAnchored(trimmedLine)
          THEN [type |-> "section", content |-> line, key |-> Undefined, value |-> Undefined]
        ELSE IF kv.matched
          THEN [type |-> "key", content |-> line,
                key |-> Str(Trim(kv.g1)), value |-> Str(Trim(kv.g2))]
        ELSE [type |-> "key", content |-> line, key |-> Undefined, value |-> Undefined]

parseIniWithComments(content) ==
    LET lines == Split(content)
    IN  [i \in 1..Len(lines) |-> classifyLine(lines[i])]

-----------------------------------------------------------------------------
(* Translation client *)

\* what the service may answer to POST /translate {q}: a transport failure or
\* non-2xx status, a body with translatedText, a body without it
Responses(q) ==
    { [kind |-> "error", data |-> Undefined],
      [kind |-> "ok", data |-> Str(<<"T">> \o q)],
      [kind |-> "ok", data |-> Undefined] }

\* translateText after the response: axios.post throws, or response.data.translatedText
translateText(resp) ==
    IF resp.kind = "error"
    THEN [threw |-> TRUE, value |-> Undefined]
    ELSE [threw |-> FALSE, value |-> resp.data]

\* checkLibreTranslateAccess: response.status === 200, false on a throw
checkLibreTranslateAccess(status) == status = "200"

-----------------------------------------------------------------------------
(* INI pipeline *)

DefaultName == <<"d", "e", "f", "a", "u", "l", "t">>
DefaultHeader == <<"[">> \o DefaultName \o <<"]", "\n">>

\* translatedContent[currentSection] = {}
openSection(tbl, cs) ==
    [s \in (DOMAIN tbl) \cup {cs} |-> IF s = cs THEN <<>> ELSE tbl[s]]

\* translatedContent[currentSection][key] = v
storeKey(tbl, cs, key, v) ==
    [tbl EXCEPT ![cs] =
        [k \in (DOMAIN tbl[cs]) \cup {key} |-> IF k = key THEN v ELSE tbl[cs][k]]]

\* translatedContent[currentSection][key]: a TypeError when the section is
\* undefined, undefined when the key is not a property of the section
lookupKey(tbl, cs, key) ==
    IF cs \notin DOMAIN tbl THEN [threw |-> TRUE, value |-> Undefined]
    ELSE IF key \in DOMAIN tbl[cs] THEN [threw |-> FALSE, value |-> tbl[cs][key]]
    ELSE [threw |-> FALSE, value |-> Undefined]

\* the loop of processIniFile from line i on, up to the next `await translateText`
\* (awaiting, at line idx) or to the end of the lines
RECURSIVE processIniLoop(_, _, _, _)
processIniLoop(lines, i, cs, tbl) ==
    IF i > Len(lines)
    THEN [awaiting |-> FALSE, idx |-> i, cs |-> cs, tbl |-> tbl]
    ELSE
      LET line == lines[i]
          sm == sectionMatch(line.content)
      IN  IF line.type = "section"
          THEN IF sm.matched
               THEN processIniLoop(lines, i + 1, sm.name, openSection(tbl, sm.name))
               ELSE processIniLoop(lines, i + 1, cs, tbl)
          ELSE IF line.type = "key" /\ Truthy(line.key) /\ Truthy(line.value)
          THEN LET cs1 == IF cs = <<>> THEN DefaultName ELSE cs
                   tbl1 == IF cs = <<>> THEN openSection(tbl, DefaultName) ELSE tbl
               IN  IF Trim(line.value.s) # <<>>
                   THEN [awaiting |-> TRUE, idx |-> i, cs |-> cs1, tbl |-> tbl1]
                   ELSE processIniLoop(lines, i + 1, cs1,
                                       storeKey(tbl1, cs1, line.key.s, line.value))
          ELSE processIniLoop(lines, i + 1, cs, tbl)

\* rawChunk with the trimmed line in place of the raw one
rawChunkTrimmed(line) == Trim(line.content) \o <<"\n">>

\* outputContent += line.content + "\n": what is appended
rawChunk(line) == line.content \o <<"\n">>

\* the re-emit loop of main from line i on: the chunks appended to outputContent,
\* one record per input line (synth: "[default]\n" was appended before the chunk;
\* cs: currentSection after the line)
RECURSIVE emitLoop(_, _, _, _)
emitLoop(lines, i, cs, tbl) ==
    IF i > Len(lines) THEN [threw |-> FALSE, out |-> <<>>]
    ELSE
      LET line == lines[i]
          sm == sectionMatch(line.content)
          cs1 == IF line.type = "section" /\ sm.matched THEN sm.name
                 ELSE IF line.type = "key" /\ Truthy(line.key) /\ Truthy(line.value)
                         /\ cs = <<>> THEN DefaultName
                 ELSE cs
          raw == [src |-> i, synth |-> FALSE, cs |-> cs1, chunk |-> rawChunk(line)]
          none == [src |-> i, synth |-> FALSE, cs |-> cs1, chunk |-> <<>>]
          looked == lookupKey(tbl, cs1, line.key.s)
          rest == emitLoop(lines, i + 1, cs1, tbl)
          here ==
            IF line.type = "section" THEN (IF sm.matched THEN raw ELSE none)
            ELSE IF line.type = "key"
            THEN IF Truthy(line.key) /\ Truthy(line.value)
                 THEN [src |-> i, synth |-> (cs = <<>>), cs |-> cs1,
                       chunk |-> line.key.s \o <<"=">> \o ToStr(looked.value) \o <<"\n">>]
                 ELSE raw
            ELSE raw
      IN  IF line.type = "key" /\ Truthy(line.key) /\ Truthy(line.value) /\ looked.threw
          THEN [threw |-> TRUE, out |-> <<>>]
          ELSE IF rest.threw THEN rest
          ELSE [threw |-> FALSE, out |-> <<here>> \o rest.out]

\* outputContent after the loop
outputContent(emitted) ==
    Concat([k \in 1..Len(emitted) |->
              (IF emitted[k].synth THEN DefaultHeader ELSE <<>>) \o emitted[k].chunk])

-----------------------------------------------------------------------------
(* JSON pipeline *)

\* the paths of the leaves translateJsonValue sends to translateText:
\* the strings with value.trim() nonempty
RECURSIVE TLeaves(_, _)
TLeaves(v, p) ==
    IF v.t = "str" THEN (IF Trim(v.s) # <<>> THEN {p} ELSE {})
    ELSE IF v.t = "arr"
      THEN UNION {TLeaves(v.a[i], Append(p, i)) : i \in 1..Len(v.a)}
    ELSE IF v.t = "obj"
      THEN UNION {TLeaves(v.o[i][2], Append(p, i)) : i \in 1..Len(v.o)}
    ELSE {}

\* the leaves whose translate call has been issued once the calls in `done`
\* have returned: value.map starts every element of an array at once, the
\* for-await loop over Object.entries starts an entry when the one before is done
RECURSIVE Issued(_, _, _)
Issued(v, p, done) ==
    IF v.t = "str" THEN TLeaves(v, p)
    ELSE IF v.t = "arr"
      THEN UNION {Issued(v.a[i], Append(p, i), done) : i \in 1..Len(v.a)}
    ELSE IF v.t = "obj"
      THEN UNION {IF \A j \in 1..(i - 1) : TLeaves(v.o[j][2], Append(p, j)) \subseteq done
                  THEN Issued(v.o[i][2], Append(p, i), done)
                  ELSE {} : i \in 1..Len(v.o)}
    ELSE {}

\* when the promise of the subtree at p settled: the position in `ord` of its
\* last call to return, 0 if it awaits no call
SettledAt(v, p, ord) ==
    LET at == {k \in 1..Len(ord) : ord[k] \in TLeaves(v, p)}
    IN  IF at = {} THEN 0 ELSE CHOOSE k \in at : \A j \in at : j <= k

\* the elements in the order their promises settled (ties in index order)
PromiseAllInSettleOrder(values, settledAt) ==
    LET n == Len(values)
        rank(i) == Cardinality({j \in 1..n :
                      \/ settledAt[j] < settledAt[i]
                      \/ settledAt[j] = settledAt[i] /\ j <= i})
    IN  [k \in 1..n |-> values[CHOOSE i \in 1..n : rank(i) = k]]

\* Promise.all: the fulfilment values in the order of the promises passed
PromiseAll(values, settledAt) == values

\* result[key] = val on a plain object: the key "__proto__" reaches the
\* Object.prototype setter and creates no own property
assignProp(result, key, val) ==
    IF key = "__proto__" THEN result
    ELSE IF \E k \in 1..Len(result) : result[k][1] = key
      THEN [k \in 1..Len(result) |->
              IF result[k][1] = key THEN <<key, val>> ELSE result[k]]
    ELSE Append(result, <<key, val>>)

RECURSIVE assignAll(_, _)
assignAll(result, entries) ==
    IF entries = <<>> THEN result
    ELSE assignAll(assignProp(result, entries[1][1], entries[1][2]), Tail(entries))

\* the value at path p of v
RECURSIVE LeafAt(_, _)
LeafAt(v, p) ==
    IF p = <<>> THEN v
    ELSE IF v.t = "arr" THEN LeafAt(v.a[Head(p)], Tail(p))
    ELSE LeafAt(v.o[Head(p)][2], Tail(p))

\* the value translateJsonValue resolves to, given the returned calls r
RECURSIVE translateJsonValue(_, _, _, _)
translateJsonValue(v, p, r, ord) ==
    IF v.t = "str" THEN (IF Trim(v.s) # <<>> THEN r[p].value ELSE v)
    ELSE IF v.t = "arr"
      THEN Arr(PromiseAll(
                 [i \in 1..Len(v.a) |-> translateJsonValue(v.a[i], Append(p, i), r, ord)],
                 [i \in 1..Len(v.a) |-> SettledAt(v.a[i], Append(p, i), ord)]))
    ELSE IF v.t = "obj"
      THEN Obj(assignAll(<<>>,
                 [i \in 1..Len(v.o) |->
                    <<v.o[i][1], translateJsonValue(v.o[i][2], Append(p, i), r, ord)>>]))
    ELSE v

\* the value the text JSON.stringify(v, null, 2) denotes: an undefined property
\* is left out, an undefined array element is written null; undefined itself
\* has no text (JSON.stringify returns undefined)
RECURSIVE stringify(_)
stringify(v) ==
    IF v.t = "arr"
      THEN Arr([i \in 1..Len(v.a) |->
                  IF v.a[i].t = "undef" THEN Null ELSE stringify(v.a[i])])
    ELSE IF v.t = "obj"
      THEN LET Own(e) == e[2].t # "undef"
               kept == SelectSeq(v.o, Own)
           IN  Obj([i \in 1..Len(kept) |-> <<kept[i][1], stringify(kept[i][2])>>])
    ELSE v

-----------------------------------------------------------------------------
(* Inputs *)

SeqsUpTo(S, n) == UNION {[1..k -> S] : k \in 0..n}

\* the lines INI inputs are made of: blank, comments, section headers (one with
\* an empty name), key-value lines (a repeated key, padded, with "=" in the
\* value, with an empty value) and lines with no key=value split
LinePool ==
    { <<>>,
      <<" ">>,
      <<"#", "c">>,
      <<" ", ";", "c">>,
      <<"[", "s", "]">>,
      <<"[", "]">>,
      <<"a", "=", "x">>,
      <<"a", "=", "y">>,
      <<" ", "b", " ", "=", " ", "x", "=", "y", " ">>,
      <<"a", "=", " ">>,
      <<"=", "x">> }

IniTexts == {Join(ls) : ls \in (SeqsUpTo(LinePool, MaxLines) \ {<<>>})}

Leaves == {Str(<<" ">>), Str(<<"h">>), Str(<<"b">>), Num, Bool, Null}
InnerLeaves == {Str(<<"h">>), Num}
KeyOrders == {<<"k">>, <<"__proto__", "k">>}

ObjsOver(S) ==
    UNION {{Obj([i \in 1..Len(ks) |-> <<ks[i], f[i]>>]) : f \in [1..Len(ks) -> S]}
           : ks \in KeyOrders}

InnerArrays == {Arr(<<>>), Arr(<<Str(<<"h">>)>>), Arr(<<Num, Str(<<"h">>)>>)}

Inner == Leaves \cup InnerArrays \cup ObjsOver(InnerLeaves)

JsonDocs == Inner \cup {Arr(a) : a \in SeqsUpTo(Inner, MaxArr)} \cup ObjsOver(Inner)

Files == [kind : {"text"}, text : IniTexts, doc : {Null}]
         \cup [kind : {"json"}, text : {<<>>}, doc : JsonDocs]

\* JSON.parse(fs.readFileSync(filePath)): of the texts of IniTexts only [] amid
\* white space is a JSON text
JsonParse(f) ==
    IF f.kind = "json" THEN [threw |-> FALSE, value |-> f.doc]
    ELSE LET NotWs(c) == ~(IsSpace(c) \/ c = "\n")
         IN  IF SelectSeq(f.text, NotWs) = <<"[", "]">>
             THEN [threw |-> FALSE, value |-> Arr(<<>>)]
             ELSE [threw |-> TRUE, value |-> Undefined]

NoFile == [state |-> "none", fmt |-> "none", text |-> <<>>, value |-> Null]
NoPending == [fmt |-> "none", text |-> <<>>, value |-> Null]

Init ==
    /\ json \in BOOLEAN
    /\ ini \in BOOLEAN
    /\ fileExists \in BOOLEAN
    /\ file \in Files
    \* a file holding a JSON document goes through the INI pipeline in no run
    /\ (file.kind = "json" => json \/ ~ini)
    /\ pc = "ValidateInput"
    /\ exitCode = -1
    /\ failure = "none"
    /\ gets = 0
    /\ isApiAccessible = "unknown"
    /\ posts = {}
    /\ currentSection = <<>>
    /\ translatedContent = <<>>
    /\ idx = 0
    /\ res = <<>>
    /\ order = <<>>
    /\ pending = NoPending
    /\ outFile = NoFile

-----------------------------------------------------------------------------
(* main *)

\* Fail with the exit status left at 0
FailExitZero(kind) ==
    /\ pc' = "Failed"
    /\ failure' = kind
    /\ exitCode' = 0

\* console.error(...); process.exit(1)
Fail(kind) ==
    /\ pc' = "Failed"
    /\ failure' = kind
    /\ exitCode' = 1

\* axios.post(`${apiUrl}/translate`, {q, ...}) on behalf of the line or leaf at p
Post(p, q) == [src |-> p, q |-> q]

\* main up to `await checkLibreTranslateAccess`: the two checks, then the GET
ValidateInput ==
    /\ pc = "ValidateInput"
    /\ IF ~fileExists
       THEN Fail("FileNotFound") /\ UNCHANGED gets
       ELSE IF ~json /\ ~ini
       THEN Fail("AmbiguousFormat") /\ UNCHANGED gets
       ELSE /\ pc' = "ProbeService"
            /\ gets' = gets + 1
            /\ UNCHANGED <<failure, exitCode>>
    /\ UNCHANGED <<json, ini, fileExists, file, isApiAccessible, posts, currentSection, translatedContent,
                   idx, res, order, pending, outFile>>

\* ProbeService without the process.exit(1) of the inaccessible branch
ProbeServiceNoExit(status) ==
    /\ pc = "ProbeService"
    /\ isApiAccessible' = IF checkLibreTranslateAccess(status) THEN "true" ELSE "false"
    /\ pc' = "Dispatch"
    /\ UNCHANGED <<json, ini, fileExists, file, gets, posts, currentSection,
                   translatedContent, idx, res, order, pending, outFile,
                   failure, exitCode>>

\* the probe returns: exit on false, else on to the try block
ProbeService(status) ==
    /\ pc = "ProbeService"
    /\ isApiAccessible' = IF checkLibreTranslateAccess(status) THEN "true" ELSE "false"
    /\ IF checkLibreTranslateAccess(status)
       THEN pc' = "Dispatch" /\ UNCHANGED <<failure, exitCode>>
       ELSE Fail("ServiceUnreachable")
    /\ UNCHANGED <<json, ini, fileExists, file, gets, posts, currentSection,
                   translatedContent, idx, res, order, pending, outFile>>

\* where processIniFile stands after running its loop to r: a translate call
\* issued, or back in main, which re-emits the lines
IniContinue(lines, r, rs) ==
    /\ res' = IF r.awaiting
              THEN [p \in (DOMAIN rs) \cup {<<r.idx>>} |->
                      IF p = <<r.idx>> THEN [st |-> "inflight", value |-> Undefined]
                      ELSE rs[p]]
              ELSE rs
    /\ currentSection' = r.cs
    /\ translatedContent' = r.tbl
    /\ idx' = r.idx
    /\ IF r.awaiting
       THEN /\ pc' = "IniAwait"
            /\ posts' = posts \cup {Post(<<r.idx>>, lines[r.idx].value.s)}
            /\ UNCHANGED <<failure, exitCode, pending>>
       ELSE LET e == emitLoop(lines, 1, <<>>, r.tbl)
            IN  /\ UNCHANGED posts
                /\ IF e.threw
                   THEN Fail("TypeError") /\ UNCHANGED pending
                   ELSE /\ pc' = "WriteOutput"
                        /\ pending' = [fmt |-> "ini", text |-> outputContent(e.out),
                                       value |-> Null]
                        /\ UNCHANGED <<failure, exitCode>>

\* the else branch of main: read and parse the file, call processIniFile
DispatchIni ==
    /\ pc = "Dispatch"
    /\ ~json
    /\ LET lines == parseIniWithComments(file.text)
       IN  IniContinue(lines, processIniLoop(lines, 1, <<>>, <<>>), <<>>)
    /\ UNCHANGED <<json, ini, fileExists, file, gets, isApiAccessible, order, outFile>>

\* a translate call of processIniFile returns
IniTranslated ==
    /\ pc = "IniAwait"
    /\ \E resp \in Responses(parseIniWithComments(file.text)[idx].value.s) :
       LET lines == parseIniWithComments(file.text)
           r == translateText(resp)
       IN  IF r.threw
           THEN /\ Fail("TranslationError")
                /\ UNCHANGED <<posts, currentSection, translatedContent, idx, pending, res>>
           ELSE IniContinue(lines,
                  processIniLoop(lines, idx + 1, currentSection,
                    storeKey(translatedContent, currentSection,
                             lines[idx].key.s, r.value)),
                  [res EXCEPT ![<<idx>>] = [st |-> "done", value |-> r.value]])
    /\ UNCHANGED <<json, ini, fileExists, file, gets, isApiAccessible, order, outFile>>

\* where the walk stands once the calls of r have returned: further calls
\* issued, or the whole value resolved and back in main
JsonContinue(doc, r, ord) ==
    LET all == TLeaves(doc, <<>>)
        done == {p \in all : r[p].st = "done"}
        now == {p \in Issued(doc, <<>>, done) : r[p].st = "idle"}
    IN  /\ res' = [p \in all |-> IF p \in now
                                 THEN [st |-> "inflight", value |-> Undefined]
                                 ELSE r[p]]
        /\ order' = ord
        /\ posts' = posts \cup {Post(p, LeafAt(doc, p).s) : p \in now}
        /\ IF done = all
           THEN /\ pc' = "WriteOutput"
                /\ pending' = [fmt |-> "json", text |-> <<>>,
                               value |-> translateJsonValue(doc, <<>>, r, ord)]
           ELSE /\ pc' = "JsonAwait"
                /\ UNCHANGED pending
        /\ UNCHANGED <<failure, exitCode>>

\* the if branch of main: processJsonFile parses the file and starts the walk
DispatchJson ==
    /\ pc = "Dispatch"
    /\ json
    /\ LET parsed == JsonParse(file)
           all == TLeaves(parsed.value, <<>>)
       IN  IF parsed.threw
           THEN Fail("ParseError") /\ UNCHANGED <<posts, res, order, pending>>
           ELSE JsonContinue(parsed.value,
                             [p \in all |-> [st |-> "idle", value |-> Undefined]], <<>>)
    /\ UNCHANGED <<json, ini, fileExists, file, gets, isApiAccessible, currentSection,
                   translatedContent, idx, outFile>>

\* the translate call of the leaf at p returns: a throw rejects every enclosing
\* promise up to the catch of main, a value resumes the walk
JsonTranslated(p) ==
    /\ pc = "JsonAwait"
    /\ res[p].st = "inflight"
    /\ \E resp \in Responses(LeafAt(JsonParse(file).value, p).s) :
       LET doc == JsonParse(file).value
           r == translateText(resp)
       IN  IF r.threw
           THEN Fail("TranslationError") /\ UNCHANGED <<posts, res, order, pending>>
           ELSE JsonContinue(doc,
                             [res EXCEPT ![p] = [st |-> "done", value |-> r.value]],
                             Append(order, p))
    /\ UNCHANGED <<json, ini, fileExists, file, gets, isApiAccessible, currentSection,
                   translatedContent, idx, outFile>>

\* fs.writeFileSync(outputPath, data): a TypeError before the file is opened
\* when data is undefined; else the file is written whole, or the write fails
\* and leaves no file or a truncated one
WriteOutput(io) ==
    /\ pc = "WriteOutput"
    /\ LET data == IF pending.fmt = "json"
                   THEN [pending EXCEPT !.value = stringify(pending.value)]
                   ELSE pending
       IN  IF data.value.t = "undef"
           THEN /\ io = "ok"
                /\ Fail("WriteError")
                /\ UNCHANGED outFile
           ELSE IF io = "ok"
           THEN /\ outFile' = [state |-> "complete", fmt |-> data.fmt,
                               text |-> data.text, value |-> data.value]
                /\ pc' = "Done"
                /\ exitCode' = 0
                /\ UNCHANGED failure
           ELSE /\ outFile' = IF io = "truncated"
                              THEN [NoFile EXCEPT !.state = "partial"]
                              ELSE NoFile
                /\ Fail("WriteError")
    /\ UNCHANGED <<json, ini, fileExists, file, gets, isApiAccessible, posts,
                   currentSection, translatedContent, idx, res, order, pending>>

Next ==
    \/ ValidateInput
    \/ \E status \in {"200", "500", "throw"} : ProbeService(status)
    \/ DispatchJson
    \/ DispatchIni
    \/ \E p \in DOMAIN res : JsonTranslated(p)
    \/ IniTranslated
    \/ \E io \in {"ok", "failed", "truncated"} : WriteOutput(io)

Spec == Init /\ [][Next]_vars

-----------------------------------------------------------------------------
(* The claims *)

\* the input as the INI pipeline reads it, and what its re-emit loop appends
RawLines == Split(file.text)
Lines == parseIniWithComments(file.text)
Emitted == emitLoop(Lines, 1, <<>>, translatedContent).out
IniDone == pc = "Done" /\ ~json
JsonDone == pc = "Done" /\ json

\* a key-value line with nonempty key and nonempty value, in the words of the
\* format: not blank, not a comment, not a [section] header, split at the
\* first "=" into a nonempty key and a value that does not trim to empty
FirstEq(raw) == IndexFrom(Trim(raw), "=", 1)
KeyOf(raw) == Trim(SubSeq(Trim(raw), 1, FirstEq(raw) - 1))
ValueOf(raw) == Trim(SubSeq(Trim(raw), FirstEq(raw) + 1, Len(Trim(raw))))
KeyValueLine(raw) ==
    LET t == Trim(raw)
    IN  /\ t # <<>>
        /\ t[1] \notin {";", "#"}
        /\ ~(t[1] = "[" /\ t[Len(t)] = "]")
        /\ FirstEq(raw) >= 2
        /\ KeyOf(raw) # <<>>
        /\ ValueOf(raw) # <<>>

\* the number of lines of a text: its newline-terminated lines, and the
\* unterminated rest if there is one
LineCount(text) ==
    LET parts == Split(text)
    IN  IF parts[Len(parts)] = <<>> THEN Len(parts) - 1 ELSE Len(parts)

KeysOf(v) == {v.o[i][1] : i \in 1..Len(v.o)}
ValueOfKey(v, k) == v.o[CHOOSE i \in 1..Len(v.o) : v.o[i][1] = k][2]

\* b has the structure of a: the same key sets and array lengths, identical
\* non-string leaves, a string wherever a has a string
RECURSIVE SameShape(_, _)
SameShape(a, b) ==
    IF a.t = "str" THEN b.t = "str"
    ELSE IF a.t = "arr"
      THEN /\ b.t = "arr"
           /\ Len(b.a) = Len(a.a)
           /\ \A i \in 1..Len(a.a) : SameShape(a.a[i], b.a[i])
    ELSE IF a.t = "obj"
      THEN /\ b.t = "obj"
           /\ KeysOf(b) = KeysOf(a)
           /\ \A k \in KeysOf(a) : SameShape(ValueOfKey(a, k), ValueOfKey(b, k))
    ELSE b = a

\* C1: after a successful --json run the value written to the output file has
\* the structure of the parsed input: same key sets, same array lengths,
\* identical non-string leaves, strings where the input has strings.
C1_StructurePreserved ==
    JsonDone => SameShape(JsonParse(file).value, outFile.value)

ListedFailures ==
    {"FileNotFound", "AmbiguousFormat", "ServiceUnreachable", "ParseError",
     "TranslationError"}

\* C2: the output file is written whole only in a run that ends Done with exit
\* status 0; a run that ends Failed exits with status 1, and when it failed on
\* a missing file, a missing format flag, the probe, the JSON parse or a
\* translate call (also after other calls succeeded) no output file exists,
\* partial or complete.
C2_NoOutputUnlessDone ==
    /\ outFile.state = "complete" => pc = "Done" /\ exitCode = 0
    /\ pc = "Done" => exitCode = 0 /\ outFile.state = "complete"
    /\ pc = "Failed" => exitCode = 1
    /\ pc = "Failed" /\ failure \in ListedFailures => outFile = NoFile
    /\ pc \notin {"Done", "Failed"} => exitCode = -1 /\ outFile = NoFile

\* a run that failed on a translate call after another call had returned a value
C2_Witness ==
    /\ pc = "Failed"
    /\ failure = "TranslationError"
    /\ \E p \in DOMAIN res : res[p].st = "done"

\* C3: after a successful --ini run every key-value line with nonempty key and
\* value has produced the output line <key>=<value translateText returned for
\* that line's own value>, also when its key or its section header is repeated.
C3_OwnTranslation ==
    IniDone =>
      \A k \in 1..Len(RawLines) :
        KeyValueLine(RawLines[k]) =>
          /\ <<k>> \in DOMAIN res
          /\ \E e \in 1..Len(Emitted) :
               /\ Emitted[e].src = k
               /\ Emitted[e].chunk =
                    KeyOf(RawLines[k]) \o <<"=">> \o ToStr(res[<<k>>].value) \o <<"\n">>

\* C4: after a successful --ini run the output is the chunks of the input lines
\* in input order, and every line that is not a key-value line with nonempty
\* key and value appears with exactly its raw text; no such line is ever sent
\* to the translation service.
C4_OthersVerbatim ==
    /\ IniDone =>
         /\ outFile.text = outputContent(Emitted)
         /\ Len(Emitted) = Len(RawLines)
         /\ \A k \in 1..Len(RawLines) :
              /\ Emitted[k].src = k
              /\ ~KeyValueLine(RawLines[k]) =>
                   /\ Emitted[k].chunk = RawLines[k] \o <<"\n">>
                   /\ ~Emitted[k].synth
    /\ ~json /\ file.kind = "text" =>
         \A c \in posts :
           /\ Len(c.src) = 1
           /\ KeyValueLine(RawLines[c.src[1]])
           /\ c.q = ValueOf(RawLines[c.src[1]])

\* a finished INI run over a section header, a line whose value trims to
\* empty and a translated line
C4_Witness ==
    /\ IniDone
    /\ posts # {}
    /\ \E i, j \in 1..Len(Lines) :
         /\ Lines[i].type = "section"
         /\ Lines[j].type = "key" /\ Lines[j].value = Str(<<>>)

\* C5: after a successful --ini run the output has as many lines as the input,
\* plus one if a [default] header was synthesized, which happens at most once;
\* an input ending in a newline gives no additional output line.
C5_LineCount ==
    IniDone =>
      LET synth == {e \in 1..Len(Emitted) : Emitted[e].synth}
      IN  /\ Cardinality(synth) <= 1
          /\ LineCount(outFile.text) = LineCount(file.text) + Cardinality(synth)

\* C6: a run goes past ValidateInput only with exactly one of --json and
\* --ini; with neither or both it ends Failed: AmbiguousFormat, exit nonzero,
\* and no pipeline is dispatched.
C6_ExactlyOneFormat ==
    /\ pc \in {"ProbeService", "Dispatch", "JsonAwait", "IniAwait", "WriteOutput", "Done"}
         => json # ini
    /\ fileExists /\ json = ini /\ pc # "ValidateInput"
         => pc = "Failed" /\ failure = "AmbiguousFormat" /\ exitCode # 0

\* C7: no request is issued before the file-exists check and the format-flag
\* check of main have passed; no translate POST is issued, and nothing is
\* dispatched, before the probe returned true; when the probe returns false
\* the run ends with exit status 1, no translate call and no output file.
C7_ValidateProbeDispatch ==
    /\ gets > 0 \/ posts # {} => fileExists /\ (json \/ ini)
    /\ pc = "ValidateInput" => gets = 0 /\ posts = {}
    /\ pc = "ProbeService" => gets = 1 /\ isApiAccessible = "unknown" /\ posts = {}
    /\ posts # {} => isApiAccessible = "true"
    /\ pc \in {"Dispatch", "JsonAwait", "IniAwait", "WriteOutput", "Done"}
         => isApiAccessible = "true"
    /\ isApiAccessible = "false"
         => pc = "Failed" /\ exitCode = 1 /\ posts = {} /\ outFile = NoFile

\* a run whose probe returned false
C7_Witness ==
    /\ isApiAccessible = "false"
    /\ failure = "ServiceUnreachable"
    /\ gets = 1

\* C8: translateText never returns an absent value to its caller: every call
\* that returned returned a string (a body without translatedText raises).
C8_NoAbsentValue ==
    \A p \in DOMAIN res : res[p].st = "done" => res[p].value.t = "str"

\* C9: when the re-emit pass reaches a key-value line with nonempty key and
\* value, translatedContent[currentSection][key] exists in the table pass 1
\* built, and holds a string (in a run whose translate calls all returned
\* strings, so that a violation does not rest on what C8 is about), also
\* after a section header that appears a second time.
C9_LookupExists ==
    (pc \in {"WriteOutput", "Done"} /\ ~json) =>
      \A k \in 1..Len(Emitted) :
        LET line == Lines[Emitted[k].src]
            cs == Emitted[k].cs
        IN  (line.type = "key" /\ Truthy(line.key) /\ Truthy(line.value)) =>
              /\ cs \in DOMAIN translatedContent
              /\ line.key.s \in DOMAIN translatedContent[cs]
              /\ (\A p \in DOMAIN res : res[p].value.t = "str")
                    => translatedContent[cs][line.key.s].t = "str"

\* the result w of the walk over v (at path p) holds, in every array, at
\* index i what the walk gives for element i: the value the translate call of
\* that element returned, or the element itself when it is not translated
RECURSIVE ArraysInOrder(_, _, _)
ArraysInOrder(v, w, p) ==
    IF v.t = "arr"
      THEN /\ w.t = "arr"
           /\ Len(w.a) = Len(v.a)
           /\ \A i \in 1..Len(v.a) :
                LET e == v.a[i]
                    q == Append(p, i)
                IN  /\ IF e.t = "str"
                       THEN w.a[i] = (IF Trim(e.s) # <<>> THEN res[q].value ELSE e)
                       ELSE IF e.t \in {"arr", "obj"} THEN w.a[i].t = e.t
                       ELSE w.a[i] = e
                    /\ ArraysInOrder(e, w.a[i], q)
    ELSE IF v.t = "obj"
      THEN /\ w.t = "obj"
           /\ \A i \in 1..Len(v.o) :
                v.o[i][1] \in KeysOf(w) =>
                  ArraysInOrder(v.o[i][2], ValueOfKey(w, v.o[i][1]), Append(p, i))
    ELSE TRUE

\* C10: whatever the order in which the concurrent translate calls of an
\* array return, the resolved array holds at index i the translation of input
\* element i, as sequential translation would.
C10_ArrayOrder ==
    (pending.fmt = "json") =>
      ArraysInOrder(JsonParse(file).value, pending.value, <<>>)

\* a walk over an array resolved after the call of a later element returned
\* before the call of an earlier one
C10_Witness ==
    /\ pending.fmt = "json"
    /\ JsonParse(file).value.t = "arr"
    /\ \E i, j \in 1..Len(order) :
         /\ i < j
         /\ Len(order[i]) = 1 /\ Len(order[j]) = 1
         /\ order[j][1] < order[i][1]
         /\ res[order[i]].value # res[order[j]].value

=============================================================================
